---- MODULE Spec2Model ----
(***************************************************************************)
(* A state-machine model of quest_screen_cap.py: the QuestADBCapture       *)
(* session object, its capture operations over the adb bridge, the         *)
(* unattended live stream, and the interactive preview (the capture_frames *)
(* worker thread and the update_display timer callback).                   *)
(*                                                                         *)
(* The caller (the menu loop of main, or any user of the class) runs on    *)
(* the main thread; every preview started so far owns one daemon worker    *)
(* thread.  Outcomes of adb commands and the texts of the Tk entry fields  *)
(* are inputs, drawn from small sets.                                      *)
(***************************************************************************)
EXTENDS Integers, Sequences, FiniteSets, TLC

VARIABLES
    GUI_AVAILABLE,  \* module flag set by the imports (lines 14-22)
    device_ip,      \* self.device_ip: "None" (USB) or "ip" (WiFi)
    connected,      \* self.connected
    streaming,      \* self.streaming
    pc,             \* where the main thread is
    op,             \* the operation the main thread runs or ran last
    ret,            \* what that operation returned ("running" while it runs)
    cmds,           \* the adb commands that operation has issued so far
    attempt,        \* connect_device: loop variable of the USB retry loop
    enums,          \* connect_device: 'adb devices' runs of this call
    waits,          \* connect_device: time.sleep(5) calls of this call
    polls,          \* connect_device: did each run list a "device" entry
    remote,         \* device files: /sdcard/screenshot.png, /sdcard/recording.mp4
    pulled,         \* what the pull of the last operation copied
    live_frames,    \* start_live_stream: frame_count (0 once it has returned)
    live_fps,       \* start_live_stream: fps (0 once it has returned)
    nsess,          \* number of view_screen_realtime calls that built a window
    current_image,  \* per preview: current_image[0] (0 is None, k the k-th image)
    frame_count,    \* per preview: frame_count[0]
    wpc,            \* per preview: where the capture_frames thread is
    wfps,           \* per preview: current_fps of the worker's cycle
    wscale,         \* per preview: current_scale of the worker's cycle
    wimg,           \* per preview: img of the worker's cycle
    wlast,          \* per preview: how the worker's cycle has gone so far
    wpubs,          \* per preview: slot writes made while the flag was false
    tpc,            \* where update_display of the running preview is
    tphoto,         \* update_display: the image it built the photo from
    status,         \* status_label of the running preview
    conn0,          \* connect_device: self.connected when the call began
    info,           \* get_device_info: the record of the last call
    filename,       \* take_screenshot, start_screen_recording: the argument
    saved_as,       \* the same calls: the file name under the output folder
    decoded,        \* one resize: the size of the decoded bitmap
    scale_text,     \* one resize: the text of the scale entry
    published       \* one resize: the size of the frame it publishes

vars == << GUI_AVAILABLE, device_ip, connected, streaming, pc, op, ret, cmds,
           attempt, enums, waits, polls, remote, pulled, live_frames, live_fps,
           nsess, current_image, frame_count, wpc, wfps, wscale, wimg, wlast,
           wpubs, tpc, tphoto, status, conn0, info, filename, saved_as,
           decoded, scale_text, published >>

(***************************************************************************)
(* Bounds of the model.                                                    *)
(***************************************************************************)
MaxSessions == 1    \* previews started in one run
MaxFrames == 2      \* frames one preview worker publishes
MaxLive == 2        \* frames one unattended live stream saves

Sessions == 1..MaxSessions

(***************************************************************************)
(* Texts are sequences of one-character strings.                           *)
(***************************************************************************)
Digits == {"0", "1", "2", "3", "4", "5", "6", "7", "8", "9"}

DigitVal(c) ==
    CASE c = "0" -> 0 [] c = "1" -> 1 [] c = "2" -> 2 [] c = "3" -> 3
      [] c = "4" -> 4 [] c = "5" -> 5 [] c = "6" -> 6 [] c = "7" -> 7
      [] c = "8" -> 8 [] c = "9" -> 9

\* str.replace('.', '')
RemoveDots(t) == SelectSeq(t, LAMBDA c : c # ".")

\* str.isdigit(): non-empty and every character a digit
IsDigit(t) == Len(t) > 0 /\ \A i \in 1..Len(t) : t[i] \in Digits

RECURSIVE IntOf(_)
IntOf(t) == IF Len(t) = 0 THEN 0
            ELSE 10 * IntOf(SubSeq(t, 1, Len(t) - 1)) + DigitVal(t[Len(t)])

NumDots(t) == Cardinality({i \in 1..Len(t) : t[i] = "."})

DotPos(t) == CHOOSE i \in 1..Len(t) : t[i] = "."

\* float(t) for a text of digits and dots: ValueError unless it has at least
\* one digit and at most one dot; the value is mant / 10^decs.
FloatRaises(t) == ~IsDigit(RemoveDots(t)) \/ NumDots(t) > 1

\* the same number without trailing zeros in its fraction
RECURSIVE Norm(_)
Norm(x) == IF x.decs > 0 /\ x.mant % 10 = 0
             THEN Norm([mant |-> x.mant \div 10, decs |-> x.decs - 1])
             ELSE x

FloatOf(t) ==
    Norm([mant |-> IntOf(RemoveDots(t)),
          decs |-> IF NumDots(t) = 0 THEN 0 ELSE Len(t) - DotPos(t)])

IsZero(x) == x.mant = 0

DefaultFps == [mant |-> 10, decs |-> 0]
DefaultScale == [mant |-> 5, decs |-> 1]

\* the guard of lines 352 and 353: text.replace('.', '').isdigit()
LooksNumeric(t) == IsDigit(RemoveDots(t))

\* what fps_var and scale_var can hold when a cycle reads them
FpsTexts ==
    { <<"1", "0">>, <<"0">>, <<"0", ".", "0">>, <<>>, <<"a", "b", "c">>,
      <<"1", ".", "2", ".", "3">>, <<"-", "1">> }

ScaleTexts ==
    { <<"0", ".", "5">>, <<"1">>, <<"0">>, <<>>, <<"x">>,
      <<"1", ".", "2", ".", "3">> }

(***************************************************************************)
(* File names, lines 174-183 and 212-221.                                  *)
(***************************************************************************)
LowerChar(c) ==
    CASE c = "P" -> "p" [] c = "N" -> "n" [] c = "G" -> "g" [] c = "M" -> "m"
      [] c = "A" -> "a" [] OTHER -> c

\* a comparison that looks at the letters as they are
KeepCase(t) == t

\* str.lower()
Lower(t) == [i \in 1..Len(t) |-> LowerChar(t[i])]

\* str.endswith(suffix)
EndsWith(t, suffix) ==
    /\ Len(t) >= Len(suffix)
    /\ SubSeq(t, Len(t) - Len(suffix) + 1, Len(t)) = suffix

DotPng == << ".", "p", "n", "g" >>
DotMp4 == << ".", "m", "p", "4" >>

\* lines 182-183 and 220-221
WithExtension(name, ext) ==
    IF ~EndsWith(Lower(name), ext) THEN name \o ext ELSE name

\* lines 179-180 and 217-218: the names built from the clock, with "t" for
\* the timestamp
AutoShotName == << "s", "_", "t" >> \o DotPng
AutoRecName == << "r", "_", "t" >> \o DotMp4

\* lines 178-183; None and "" are both written << >>
ShotName(fn) == WithExtension(IF fn = << >> THEN AutoShotName ELSE fn, DotPng)

\* lines 216-221
RecName(fn) == WithExtension(IF fn = << >> THEN AutoRecName ELSE fn, DotMp4)

\* the names a caller passes: none, or a stem and an ending
Stems == { << "A" >> }

Endings ==
    { << >>, DotPng, << ".", "P", "N", "G" >>, << ".", "P", "n", "g" >>,
      << ".", "p", "n", "G" >>, << "p", "n", "g" >>, << ".", "p", "n" >>,
      DotPng \o << "." >>, DotMp4, << ".", "M", "P", "4" >>,
      << ".", "m", "P", "4" >>, << "m", "p", "4" >>, DotMp4 \o DotPng,
      DotPng \o DotMp4 }

FileNames == { << >> } \cup { st \o en : st \in Stems, en \in Endings }

(***************************************************************************)
(* The device and the bridge.                                              *)
(***************************************************************************)
Files == {"shot", "rec"}

\* exit status of one adb command
Exits == {"ok", "fail"}

\* a subprocess.run without check=True: the exit status, or "raise" when
\* the call itself raises (the command cannot be run, or with text=True its
\* output cannot be decoded)
RunOutcomes == Exits \cup {"raise"}

Cmd(name, rc) == << name, rc >>

Issued(name) == \E rc \in Exits : Cmd(name, rc) \in cmds

\* A file left on the device by an earlier call is stale for this one.
Age(r) == [f \in Files |-> IF r[f] = "fresh" THEN "stale" ELSE r[f]]

\* 'adb devices': the status column of the lines after the header
Listings ==
    { <<>>, <<"offline">>, <<"device">>, <<"unauthorized", "device">> }

\* line 108: the entries whose line holds "\tdevice"
Devices(listing) == SelectSeq(listing, LAMBDA st : st = "device")

\* lines 106-107: the output of one run lists an entry of status "device"
ListsDevice(listing) == \E i \in 1..Len(listing) : listing[i] = "device"

\* 'adb connect': the words of its standard output
ConnectReplies ==
    { <<"connected", "to", "ip">>, <<"already", "connected", "to", "ip">>,
      <<"failed", "to", "connect", "to", "ip">>, <<>> }

\* line 96: "connected" in result.stdout.lower()
SaysConnected(reply) == \E i \in 1..Len(reply) : reply[i] = "connected"

\* line 104
max_attempts == 3

\* a wait after every attempt, the last one too
ShouldWaitAlways(a) == a < max_attempts

\* line 115: wait before the next attempt
ShouldWait(a) == a < max_attempts - 1

(***************************************************************************)
(* The preview's shared state.                                             *)
(***************************************************************************)
NoImage == 0

\* resolutions screencap can deliver
ImageSizes == { << 3664, 1920 >>, << 1, 1 >> }

RECURSIVE Pow10(_)
Pow10(n) == IF n = 0 THEN 1 ELSE 10 * Pow10(n - 1)

(***************************************************************************)
(* Python's float is the IEEE 754 double: 53 significant binary digits,    *)
(* every result rounded to the nearest double, a tie to the one whose last *)
(* digit is even.  A float value is written here as the shortest decimal   *)
(* [mant, decs] that float() turns into it; the binary form is worked out  *)
(* where the arithmetic of lines 369 and 370 needs it.  Long numerals are  *)
(* sequences of digits, least significant first: of Base for products and  *)
(* quotients, of 0 and 1 for rounding.                                     *)
(***************************************************************************)
\* binary digits in one digit of Base
DigitBits == 10

RECURSIVE Pow2(_)
Pow2(n) == IF n = 0 THEN 1 ELSE 2 * Pow2(n - 1)

Base == Pow2(DigitBits)

RECURSIVE NumeralOf(_)
NumeralOf(n) ==
    IF n = 0 THEN << >> ELSE << n % Base >> \o NumeralOf(n \div Base)

RECURSIVE ValueOf(_)
ValueOf(b) == IF Len(b) = 0 THEN 0 ELSE Head(b) + 2 * ValueOf(Tail(b))

Zeros(k) == [i \in 1..k |-> 0]

\* a * w + carry, for a small w
RECURSIVE TimesSmall(_, _, _)
TimesSmall(a, w, carry) ==
    IF Len(a) = 0 THEN NumeralOf(carry)
    ELSE LET t == Head(a) * w + carry
         IN  << t % Base >> \o TimesSmall(Tail(a), w, t \div Base)

\* quotient and remainder of a by a small d
RECURSIVE DivSmall(_, _)
DivSmall(a, d) ==
    IF Len(a) = 0 THEN [q |-> << >>, r |-> 0]
    ELSE LET hi == DivSmall(Tail(a), d)
             t == hi.r * Base + Head(a)
         IN  [q |-> << t \div d >> \o hi.q, r |-> t % d]

\* the binary digits of a numeral of Base, without leading zeros
BitsOf(a) ==
    LET all == [i \in 1..(DigitBits * Len(a)) |->
                  (a[(i - 1) \div DigitBits + 1]
                      \div Pow2((i - 1) % DigitBits)) % 2]
        ones == { i \in 1..Len(all) : all[i] = 1 }
    IN  IF ones = {} THEN << >>
        ELSE SubSeq(all, 1, CHOOSE i \in ones : \A j \in ones : j <= i)

\* the numeral of Base with the binary digits b
DigitsOf(b) ==
    [j \in 1..((Len(b) + DigitBits - 1) \div DigitBits) |->
        ValueOf([k \in 1..DigitBits |->
                   IF DigitBits * (j - 1) + k <= Len(b)
                     THEN b[DigitBits * (j - 1) + k] ELSE 0])]

\* b + 1, in binary digits
Inc(b) ==
    LET zeros == { i \in 1..Len(b) : b[i] = 0 }
        low == IF zeros = {} THEN Len(b) + 1
               ELSE CHOOSE i \in zeros : \A j \in zeros : i <= j
    IN  [i \in 1..(IF zeros = {} THEN Len(b) + 1 ELSE Len(b)) |->
            IF i < low THEN 0 ELSE IF i = low THEN 1 ELSE b[i]]

\* significant binary digits of a double
Precision == 53

\* digits of Base kept below the point while a decimal is divided out
GuardDigits == 7

\* The binary numeral b (no leading zeros; sticky: something non-zero lies
\* below its last digit) rounded to Precision digits, nearest and ties to
\* even: the digits kept and the number of digits dropped.
Rounded(b, sticky) ==
    IF Len(b) <= Precision THEN [sig |-> b, exp |-> 0]
    ELSE LET drop == Len(b) - Precision
             high == SubSeq(b, drop + 1, Len(b))
             rest == sticky \/ \E i \in 1..(drop - 1) : b[i] = 1
             up == b[drop] = 1 /\ (rest \/ high[1] = 1)
             r == IF up THEN Inc(high) ELSE high
         IN  IF Len(r) > Precision
               THEN [sig |-> Tail(r), exp |-> drop + 1]
               ELSE [sig |-> r, exp |-> drop]

\* float(text): the double nearest to mant / 10^decs, as sig * 2^exp
DoubleOf(x) ==
    LET d == DivSmall(Zeros(GuardDigits) \o NumeralOf(x.mant),
                      Pow10(x.decs))
        r == Rounded(BitsOf(d.q), d.r # 0)
    IN  [sig |-> r.sig, exp |-> r.exp - DigitBits * GuardDigits]

\* n * y for an int n and a float y: the product rounded to a double
DoubleTimes(n, y) ==
    LET r == Rounded(BitsOf(TimesSmall(DigitsOf(y.sig), n, 0)), FALSE)
    IN  [sig |-> r.sig, exp |-> y.exp + r.exp]

\* int(y) for y >= 0: the digits above the point
IntOfDouble(y) ==
    IF y.exp >= 0 THEN ValueOf(Zeros(y.exp) \o y.sig)
    ELSE IF 0 - y.exp >= Len(y.sig) THEN 0
    ELSE ValueOf(SubSeq(y.sig, 1 - y.exp, Len(y.sig)))

\* sizes of decoded bitmaps, for the resize taken by itself
ResizeSizes ==
    ImageSizes \cup { << 2880, 1600 >>, << 1832, 1920 >>, << 1920, 1080 >>,
                      << 2064, 2208 >>, << 1440, 1600 >>, << 10, 10 >> }

\* texts of the scale entry, for the resize taken by itself
ResizeTexts ==
    ScaleTexts \cup { << "1", ".", "0" >>, << "0", ".", "7" >>,
                      << "0", ".", "2", "9" >>, << "0", ".", "3", "5" >>,
                      << "0", ".", "1" >>, << "0", ".", "2", "5" >> }

\* the sides and the scales the arithmetic is asked for
Sides == { size[i] : size \in ResizeSizes, i \in 1..2 }
Scales ==
    { DefaultScale } \cup
    { FloatOf(t) : t \in { u \in ResizeTexts : ~FloatRaises(u) } }

\* int(x * scale), worked out once for every side and scale
Products ==
    [x \in Sides, scale \in Scales |->
        IntOfDouble(DoubleTimes(x, DoubleOf(scale)))]

\* int(x * scale) of lines 369 and 370
Scaled(x, scale) == Products[x, scale]

\* line 368: current_scale != 1.0
IsOne(scale) == scale.mant = Pow10(scale.decs)

InitialStatus == [kind |-> "Initializing", frame |-> 0, photo |-> 0]

\* get_device_info has returned no record
NoInfo == [model |-> "", android_version |-> "", resolution |-> ""]

\* no bitmap
NoSize == << 0, 0 >>

\* lines 25-30, and the records of the calls before any call is made
SessionInit ==
    /\ GUI_AVAILABLE \in BOOLEAN
    /\ device_ip \in {"None", "ip"}
    /\ connected = FALSE
    /\ streaming = FALSE
    /\ pc = "idle"
    /\ op = "init"
    /\ ret = "none"
    /\ cmds = {}
    /\ attempt = 0
    /\ enums = 0
    /\ waits = 0
    /\ polls = << >>
    /\ remote = [f \in Files |-> "absent"]
    /\ pulled = "none"
    /\ live_frames = 0
    /\ live_fps = 0
    /\ nsess = 0
    /\ current_image = [s \in Sessions |-> NoImage]
    /\ frame_count = [s \in Sessions |-> 0]
    /\ wpc = [s \in Sessions |-> "none"]
    /\ wfps = [s \in Sessions |-> DefaultFps]
    /\ wscale = [s \in Sessions |-> DefaultScale]
    /\ wimg = [s \in Sessions |-> NoImage]
    /\ wlast = [s \in Sessions |-> "none"]
    /\ wpubs = [s \in Sessions |-> 0]
    /\ tpc = "none"
    /\ tphoto = NoImage
    /\ status = InitialStatus
    /\ conn0 = FALSE
    /\ info = NoInfo
    /\ filename = << >>
    /\ saved_as = << >>

Init ==
    /\ SessionInit
    /\ decoded = NoSize
    /\ scale_text = << >>
    /\ published = NoSize

connectVars == << attempt, enums, waits, polls, conn0 >>
liveVars == << live_frames, live_fps >>
workerVars == << nsess, current_image, frame_count, wpc, wfps, wscale, wimg,
                 wlast, wpubs >>
tickVars == << tpc, tphoto, status >>
sessionVars == << GUI_AVAILABLE, device_ip >>
pullVars == << pulled, filename, saved_as >>
resizeVars == << decoded, scale_text, published >>

\* Setting self.streaming starts the count of slot writes afresh.
PubsOnSet == [s \in Sessions |-> 0]

\* A call starts with a clean record of the calls of the other kinds.
NoFile == pulled' = "none" /\ filename' = << >> /\ saved_as' = << >>
NoConnect ==
    attempt' = 0 /\ enums' = 0 /\ waits' = 0 /\ polls' = << >> /\ conn0' = FALSE
NoLive == live_frames' = 0 /\ live_fps' = 0
NoPull == NoFile /\ info' = NoInfo

(***************************************************************************)
(* connect_device, lines 85-127.                                           *)
(***************************************************************************)
\* check_adb_installed (lines 71-83) fails: 'adb version' exits non-zero or
\* the executable is missing.
ConnectNoAdb ==
    /\ pc = "idle"
    /\ op' = "connect_device"
    /\ \E how \in {"fail", "missing"} :
          cmds' = IF how = "fail" THEN {Cmd("version", "fail")} ELSE {}
    /\ ret' = "False"
    /\ attempt' = 0 /\ enums' = 0 /\ waits' = 0 /\ polls' = << >>
    /\ conn0' = connected
    /\ NoPull /\ NoLive
    /\ UNCHANGED << sessionVars, resizeVars, connected, streaming, pc, remote,
                    workerVars, tickVars >>

\* lines 91-101: a WiFi target; subprocess.run may raise (line 125).
ConnectWifi ==
    /\ pc = "idle"
    /\ device_ip = "ip"
    /\ op' = "connect_device"
    /\ attempt' = 0 /\ enums' = 0 /\ waits' = 0 /\ polls' = << >>
    /\ conn0' = connected
    /\ \/ \E reply \in ConnectReplies :
             /\ cmds' = {Cmd("version", "ok"), Cmd("connect", "ok")}
             /\ IF SaysConnected(reply)
                  THEN connected' = TRUE /\ ret' = "True"
                  ELSE connected' = connected /\ ret' = "False"
       \/ /\ cmds' = {Cmd("version", "ok")}
          /\ connected' = connected
          /\ ret' = "False"
    /\ NoPull /\ NoLive
    /\ UNCHANGED << sessionVars, resizeVars, streaming, pc, remote, workerVars,
                    tickVars >>

\* lines 102-105: a USB target enters the retry loop.
ConnectUsbStart ==
    /\ pc = "idle"
    /\ device_ip = "None"
    /\ op' = "connect_device"
    /\ cmds' = {Cmd("version", "ok")}
    /\ ret' = "running"
    /\ pc' = "connect_loop"
    /\ attempt' = 0 /\ enums' = 0 /\ waits' = 0 /\ polls' = << >>
    /\ conn0' = connected
    /\ NoPull /\ NoLive
    /\ UNCHANGED << sessionVars, resizeVars, connected, streaming, remote,
                    workerVars, tickVars >>

\* lines 105-121: one pass of the retry loop; line 123 when the loop ends.
ConnectPoll ==
    /\ pc = "connect_loop"
    /\ enums' = enums + 1
    /\ cmds' = cmds \cup {Cmd("devices", "ok")}
    /\ \E listing \in Listings :
          /\ polls' = Append(polls, ListsDevice(listing))
          /\ IF Len(Devices(listing)) > 0
               THEN /\ connected' = TRUE
                    /\ ret' = "True" /\ pc' = "idle"
                    /\ UNCHANGED << attempt, waits >>
               ELSE /\ connected' = connected
                    /\ IF ShouldWait(attempt)
                         THEN /\ waits' = waits + 1
                              /\ attempt' = attempt + 1
                              /\ IF attempt + 1 < max_attempts
                                   THEN ret' = ret /\ pc' = pc
                                   ELSE ret' = "True" /\ pc' = "idle"
                         ELSE /\ ret' = "False" /\ pc' = "idle"
                              /\ UNCHANGED << attempt, waits >>
    /\ UNCHANGED << sessionVars, info, resizeVars, streaming, op, remote,
                    pullVars, liveVars, workerVars, tickVars, conn0 >>

\* lines 125-127: 'adb devices' cannot be run; the handler returns False.
ConnectPollRaises ==
    /\ pc = "connect_loop"
    /\ enums' = enums + 1
    /\ ret' = "False"
    /\ pc' = "idle"
    /\ UNCHANGED << sessionVars, info, resizeVars, connected, streaming, op,
                    cmds, attempt, waits, polls, remote, pullVars, liveVars,
                    workerVars, tickVars, conn0 >>

connect_device ==
    \/ ConnectNoAdb
    \/ ConnectWifi
    \/ ConnectUsbStart
    \/ ConnectPoll
    \/ ConnectPollRaises

(***************************************************************************)
(* disconnect, lines 425-430.                                              *)
(***************************************************************************)
\* subprocess.run of line 428 has no try around it: when 'adb disconnect'
\* cannot be run the exception leaves the function before line 430.
disconnect ==
    /\ pc = "idle"
    /\ op' = "disconnect"
    /\ IF device_ip = "ip"
         THEN \/ /\ \E rc \in Exits : cmds' = {Cmd("disconnect", rc)}
                 /\ connected' = FALSE
                 /\ ret' = "None"
              \/ /\ cmds' = {Cmd("disconnect", "raise")}
                 /\ connected' = connected
                 /\ ret' = "raised"
         ELSE /\ cmds' = {}
              /\ connected' = FALSE
              /\ ret' = "None"
    /\ NoConnect /\ NoPull /\ NoLive
    /\ UNCHANGED << sessionVars, resizeVars, streaming, pc, remote, workerVars,
                    tickVars >>

(***************************************************************************)
(* get_device_info, lines 129-166.  The three subprocess.run calls have no *)
(* check=True and share one try block, whose handler returns None.  A      *)
(* query that exits non-zero has printed nothing on its standard output.   *)
(***************************************************************************)
\* the queries in the order of lines 137, 142 and 147, by the key of line 151
Fields == << "model", "android_version", "resolution" >>

\* the queries that are run: all three, or those up to the first that raises
Ran(out) == { i \in 1..3 : \A j \in 1..(i - 1) : out[j] # "raise" }

\* lines 139, 144, 149: result.stdout.strip()
Stripped(rc) == IF rc = "ok" THEN "text" ELSE ""

get_device_info ==
    /\ pc = "idle"
    /\ op' = "get_device_info"
    /\ IF ~connected
         THEN /\ cmds' = {} /\ ret' = "None"
              /\ info' = NoInfo
         ELSE \E out \in [1..3 -> RunOutcomes] :
                 /\ cmds' = { Cmd(Fields[i], out[i]) : i \in Ran(out) }
                 /\ IF \E i \in 1..3 : out[i] = "raise"
                      THEN ret' = "None" /\ info' = NoInfo
                      ELSE /\ ret' = "info"
                           /\ info' = [model |-> Stripped(out[1]),
                                       android_version |-> Stripped(out[2]),
                                       resolution |-> Stripped(out[3])]
    /\ NoConnect /\ NoFile /\ NoLive
    /\ UNCHANGED << sessionVars, resizeVars, connected, streaming, pc,
                    remote, workerVars, tickVars >>

(***************************************************************************)
(* take_screenshot, lines 168-204.  Each subprocess.run has check=True, so *)
(* a non-zero exit raises CalledProcessError and control goes to line 202. *)
(***************************************************************************)
take_screenshot ==
    /\ pc = "idle"
    /\ op' = "take_screenshot"
    /\ IF ~connected
         THEN /\ cmds' = {} /\ ret' = "False"
              /\ pulled' = "none"
              /\ filename' = << >> /\ saved_as' = << >>
              /\ UNCHANGED remote
         ELSE \E fn \in FileNames, sc \in Exits, pl \in Exits, rm \in Exits :
               /\ filename' = fn
               /\ saved_as' = ShotName(fn)
               /\ IF sc = "fail"
                   THEN /\ cmds' = {Cmd("screencap", sc)}
                        /\ ret' = "False"
                        /\ remote' = Age(remote)
                        /\ pulled' = "none"
                   ELSE IF pl = "fail"
                     THEN /\ cmds' = {Cmd("screencap", sc), Cmd("pull", pl)}
                          /\ ret' = "False"
                          /\ remote' = [Age(remote) EXCEPT !["shot"] = "fresh"]
                          /\ pulled' = "none"
                     ELSE /\ cmds' = {Cmd("screencap", sc), Cmd("pull", pl),
                                      Cmd("rm", rm)}
                          /\ pulled' = "fresh"
                          /\ IF rm = "fail"
                               THEN /\ ret' = "False"
                                    /\ remote' = [Age(remote) EXCEPT
                                                    !["shot"] = "fresh"]
                               ELSE /\ ret' = "path"
                                    /\ remote' = [Age(remote) EXCEPT
                                                    !["shot"] = "absent"]
    /\ info' = NoInfo
    /\ NoConnect /\ NoLive
    /\ UNCHANGED << sessionVars, resizeVars, connected, streaming, pc,
                    workerVars, tickVars >>

(***************************************************************************)
(* start_screen_recording, lines 206-250.  screenrecord is run with Popen  *)
(* and wait(); its exit status is not read.  pull and rm have check=True.  *)
(* A screenrecord that fails may or may not have written its file; a pull  *)
(* can only succeed when the remote file exists.                           *)
(***************************************************************************)
start_screen_recording ==
    /\ pc = "idle"
    /\ op' = "start_screen_recording"
    /\ IF ~connected
         THEN /\ cmds' = {} /\ ret' = "False"
              /\ pulled' = "none"
              /\ filename' = << >> /\ saved_as' = << >>
              /\ UNCHANGED remote
         ELSE \E fn \in FileNames, rec \in Exits, wrote \in BOOLEAN,
                 pl \in Exits, rm \in Exits :
               /\ filename' = fn
               /\ saved_as' = RecName(fn)
               /\ LET r1 == IF rec = "ok" \/ wrote
                             THEN [Age(remote) EXCEPT !["rec"] = "fresh"]
                             ELSE Age(remote)
                 IN  /\ (pl = "ok" => r1["rec"] # "absent")
                     /\ IF pl = "fail"
                          THEN /\ cmds' = {Cmd("screenrecord", rec),
                                           Cmd("pull", pl)}
                               /\ ret' = "False"
                               /\ remote' = r1
                               /\ pulled' = "none"
                          ELSE /\ cmds' = {Cmd("screenrecord", rec),
                                           Cmd("pull", pl), Cmd("rm", rm)}
                               /\ pulled' = r1["rec"]
                               /\ IF rm = "fail"
                                    THEN ret' = "False" /\ remote' = r1
                                    ELSE /\ ret' = "path"
                                         /\ remote' = [r1 EXCEPT
                                                         !["rec"] = "absent"]
    /\ info' = NoInfo
    /\ NoConnect /\ NoLive
    /\ UNCHANGED << sessionVars, resizeVars, connected, streaming, pc,
                    workerVars, tickVars >>

(***************************************************************************)
(* start_live_stream, lines 252-288.  Only KeyboardInterrupt is handled:   *)
(* a CalledProcessError of screencap or pull (check=True) and the          *)
(* ZeroDivisionError of 1.0 / fps leave the function as exceptions.        *)
(***************************************************************************)
\* fps arguments the caller passes (main: int(text) if text.isdigit() else 10)
LiveFps == {0, 10}

workerRest == << nsess, current_image, frame_count, wpc, wfps, wscale, wimg,
                 wlast >>

\* lines 254-263
LiveStart ==
    /\ pc = "idle"
    /\ op' = "start_live_stream"
    /\ cmds' = {}
    /\ live_frames' = 0
    /\ IF ~connected
         THEN /\ ret' = "False"
              /\ live_fps' = 0
              /\ UNCHANGED << streaming, pc, wpubs >>
         ELSE /\ streaming' = TRUE
              /\ wpubs' = PubsOnSet
              /\ ret' = "running"
              /\ pc' = "live_loop"
              /\ \E f \in LiveFps : live_fps' = f
    /\ NoConnect /\ NoPull
    /\ UNCHANGED << sessionVars, resizeVars, connected, remote, workerRest,
                    tickVars >>

\* lines 264-280: one pass of the loop, or the loop's end when the flag is
\* found false (only another thread can have cleared it).
LiveCycle ==
    /\ pc = "live_loop"
    /\ IF ~streaming
         THEN /\ ret' = "None" /\ pc' = "idle"
              /\ NoLive
              /\ UNCHANGED cmds
         ELSE /\ live_frames < MaxLive
              /\ \E sc \in Exits, pl \in Exits :
                    IF sc = "fail"
                      THEN /\ cmds' = cmds \cup {Cmd("screencap", sc)}
                           /\ ret' = "raised" /\ pc' = "idle"
                           /\ NoLive
                      ELSE IF pl = "fail"
                        THEN /\ cmds' = cmds \cup {Cmd("screencap", sc),
                                                   Cmd("pull", pl)}
                             /\ ret' = "raised" /\ pc' = "idle"
                             /\ NoLive
                        ELSE /\ cmds' = cmds \cup {Cmd("screencap", sc),
                                                   Cmd("pull", pl)}
                             /\ IF live_fps = 0
                                  THEN /\ ret' = "raised" /\ pc' = "idle"
                                       /\ NoLive
                                  ELSE /\ ret' = ret /\ pc' = pc
                                       /\ live_frames' = live_frames + 1
                                       /\ UNCHANGED live_fps
    /\ UNCHANGED << sessionVars, info, resizeVars, connected, streaming, op,
                    connectVars, remote, pullVars, workerVars, tickVars >>

\* lines 282-288: Ctrl+C; the rm has no check=True.
LiveInterrupt ==
    /\ pc = "live_loop"
    /\ streaming' = FALSE
    /\ \E rm \in Exits : cmds' = cmds \cup {Cmd("rm", rm)}
    /\ ret' = "None"
    /\ pc' = "idle"
    /\ NoLive
    /\ UNCHANGED << sessionVars, info, resizeVars, connected, op, connectVars,
                    remote, pullVars, workerVars, tickVars >>

start_live_stream ==
    \/ LiveStart
    \/ LiveCycle
    \/ LiveInterrupt

(***************************************************************************)
(* view_screen_realtime, lines 290-423.                                    *)
(***************************************************************************)
\* lines 292-299: the early returns
ViewRefused ==
    /\ pc = "idle"
    /\ ~GUI_AVAILABLE \/ ~connected
    /\ op' = "view_screen_realtime"
    /\ cmds' = {}
    /\ ret' = "False"
    /\ NoConnect /\ NoPull /\ NoLive
    /\ UNCHANGED << sessionVars, resizeVars, connected, streaming, pc, remote,
                    workerVars, tickVars >>

\* lines 301-416: the window, the shared boxes, the worker thread and the
\* first timer; the main thread enters root.mainloop().
ViewStart ==
    /\ pc = "idle"
    /\ GUI_AVAILABLE /\ connected
    /\ nsess < MaxSessions
    /\ op' = "view_screen_realtime"
    /\ cmds' = {}
    /\ ret' = "running"
    /\ pc' = "mainloop"
    /\ streaming' = TRUE
    /\ wpubs' = PubsOnSet
    /\ nsess' = nsess + 1
    /\ current_image' = [current_image EXCEPT ![nsess + 1] = NoImage]
    /\ frame_count' = [frame_count EXCEPT ![nsess + 1] = 0]
    /\ wpc' = [wpc EXCEPT ![nsess + 1] = "check"]
    /\ tpc' = "wait"
    /\ tphoto' = NoImage
    /\ status' = InitialStatus
    /\ NoConnect /\ NoPull /\ NoLive
    /\ UNCHANGED << sessionVars, resizeVars, connected, remote, wfps, wscale,
                    wimg, wlast >>

\* Tk runs an event handler only between two callbacks.
BetweenCallbacks == tpc \in {"wait", "stopped"}

\* lines 335-337: the Stop button
stop_viewing ==
    /\ pc = "mainloop"
    /\ BetweenCallbacks
    /\ streaming' = FALSE
    /\ pc' = "finally"
    /\ UNCHANGED << sessionVars, info, resizeVars, connected, op, ret, cmds,
                    connectVars, remote, pullVars, liveVars, workerVars,
                    tickVars >>

\* lines 416-418: the window is closed, or Ctrl+C ends root.mainloop()
LeaveMainloop ==
    /\ pc = "mainloop"
    /\ BetweenCallbacks
    /\ pc' = "finally"
    /\ UNCHANGED << sessionVars, info, resizeVars, connected, streaming, op,
                    ret, cmds, connectVars, remote, pullVars, liveVars,
                    workerVars, tickVars >>

\* The view_screen_realtime call that started worker s has returned, so its
\* line 420 has set the flag false after the worker was started.
Returned(s) ==
    wpc[s] # "none" /\ (s < nsess \/ pc \notin {"mainloop", "finally"})

\* lines 345-346: current_image and frame_count are locals of the call that
\* the two nested functions share.  Once the call has returned and its
\* thread has ended nothing refers to them any more: f with the entry of
\* preview s back at its initial value v.
Freed(f, s, v) == [f EXCEPT ![s] = v]

\* lines 419-423.  A timer still pending never fires once mainloop is left,
\* and the widgets are out of reach once the call has returned.
ViewFinally ==
    /\ pc = "finally"
    /\ streaming' = FALSE
    /\ ret' = "True"
    /\ pc' = "idle"
    /\ tpc' = "none"
    /\ status' = InitialStatus
    /\ IF wpc[nsess] \in {"done", "dead"}
         THEN /\ current_image' = Freed(current_image, nsess, NoImage)
              /\ frame_count' = Freed(frame_count, nsess, 0)
              /\ wlast' = Freed(wlast, nsess, "none")
         ELSE UNCHANGED << current_image, frame_count, wlast >>
    /\ UNCHANGED << sessionVars, info, resizeVars, connected, op, cmds,
                    connectVars, remote, pullVars, liveVars, nsess, wpc,
                    wfps, wscale, wimg, wpubs, tphoto >>

(***************************************************************************)
(* capture_frames, lines 348-383: the worker thread of preview s.          *)
(***************************************************************************)
\* a loop that does not test the flag
LoopForever(flag) == TRUE

\* line 351: while self.streaming
LoopContinues(flag) == flag

\* lines 352 and 353: float(text) if text.replace('.', '').isdigit() else d
ParseRaises(t) == LooksNumeric(t) /\ FloatRaises(t)
Parsed(t, d) == IF LooksNumeric(t) THEN FloatOf(t) ELSE d

mainVars == << sessionVars, info, resizeVars, connected, pc, op, ret, cmds,
               connectVars,
               remote, pullVars, liveVars >>

\* lines 351-353: the loop test, then the two entry fields are read.  A
\* ValueError of float() reaches the handler of line 381.
WorkerCheck(s) ==
    /\ wpc[s] = "check"
    /\ IF ~LoopContinues(streaming)
         THEN /\ wpc' = [wpc EXCEPT ![s] = "done"]
              /\ IF Returned(s)
                   THEN /\ current_image' = Freed(current_image, s, NoImage)
                        /\ frame_count' = Freed(frame_count, s, 0)
                   ELSE UNCHANGED << current_image, frame_count >>
              /\ UNCHANGED << wfps, wscale, wlast >>
         ELSE /\ frame_count[s] < MaxFrames
              /\ UNCHANGED << current_image, frame_count >>
              /\ \E ft \in FpsTexts, st \in ScaleTexts :
                    IF ParseRaises(ft) \/ ParseRaises(st)
                      THEN /\ wpc' = [wpc EXCEPT ![s] = "exc"]
                           /\ wlast' = [wlast EXCEPT ![s] = "parse_raise"]
                           /\ UNCHANGED << wfps, wscale >>
                      ELSE /\ wpc' = [wpc EXCEPT ![s] = "capture"]
                           /\ wlast' = [wlast EXCEPT ![s] = "none"]
                           /\ wfps' = [wfps EXCEPT
                                         ![s] = Parsed(ft, DefaultFps)]
                           /\ wscale' = [wscale EXCEPT
                                           ![s] = Parsed(st, DefaultScale)]
    /\ UNCHANGED << mainVars, streaming, nsess, wimg, wpubs, tickVars >>

\* lines 368-371: the size of the image after the resize
Resized(size, scale) ==
    IF IsOne(scale) THEN [w |-> size[1], h |-> size[2]]
    ELSE [w |-> Scaled(size[1], scale), h |-> Scaled(size[2], scale)]

\* lines 356-377: screencap returns while the thread was blocked in it, the
\* bytes are decoded and the image resized.  A non-zero exit skips the
\* cycle; an exception of Image.open or of resize is printed (line 377);
\* an exception of subprocess.run reaches the handler of line 381.  Whether
\* resize accepts a size with a zero side depends on the imaging library.
\* The k-th image a preview decodes successfully is image k.
WorkerCapture(s) ==
    /\ wpc[s] = "capture"
    /\ \/ /\ wlast' = [wlast EXCEPT ![s] = "rc_fail"]
          /\ wpc' = [wpc EXCEPT ![s] = "sleep"]
          /\ UNCHANGED wimg
       \/ /\ wlast' = [wlast EXCEPT ![s] = "capture_raise"]
          /\ wpc' = [wpc EXCEPT ![s] = "exc"]
          /\ UNCHANGED wimg
       \/ /\ wlast' = [wlast EXCEPT ![s] = "decode_fail"]
          /\ wpc' = [wpc EXCEPT ![s] = "sleep"]
          /\ UNCHANGED wimg
       \/ \E size \in ImageSizes :
             LET new == Resized(size, wscale[s])
             IN  \/ /\ new.w = 0 \/ new.h = 0
                    /\ wlast' = [wlast EXCEPT ![s] = "resize_fail"]
                    /\ wpc' = [wpc EXCEPT ![s] = "sleep"]
                    /\ UNCHANGED wimg
                 \/ /\ wlast' = [wlast EXCEPT ![s] = "ok"]
                    /\ wpc' = [wpc EXCEPT ![s] = "pub_img"]
                    /\ wimg' = [wimg EXCEPT ![s] = frame_count[s] + 1]
    /\ wscale' = [wscale EXCEPT ![s] = DefaultScale]
    /\ UNCHANGED << mainVars, streaming, nsess, current_image, frame_count,
                    wfps, wpubs, tickVars >>

\* line 373: current_image[0] = img
WorkerPublishImage(s) ==
    /\ wpc[s] = "pub_img"
    /\ current_image' = [current_image EXCEPT ![s] = wimg[s]]
    /\ wpubs' = [wpubs EXCEPT ![s] = IF streaming THEN @ ELSE @ + 1]
    /\ wimg' = [wimg EXCEPT ![s] = NoImage]
    /\ wpc' = [wpc EXCEPT ![s] = "pub_cnt"]
    /\ UNCHANGED << mainVars, streaming, nsess, frame_count, wfps, wscale,
                    wlast, tickVars >>

\* line 374: frame_count[0] += 1
WorkerPublishCount(s) ==
    /\ wpc[s] = "pub_cnt"
    /\ frame_count' = [frame_count EXCEPT ![s] = @ + 1]
    /\ wpc' = [wpc EXCEPT ![s] = "sleep"]
    /\ UNCHANGED << mainVars, streaming, nsess, current_image, wfps, wscale,
                    wimg, wlast, wpubs, tickVars >>

\* line 379: time.sleep(1.0 / current_fps); the division raises for 0.0
WorkerSleep(s) ==
    /\ wpc[s] = "sleep"
    /\ IF IsZero(wfps[s])
         THEN /\ wpc' = [wpc EXCEPT ![s] = "exc"]
              /\ wlast' = [wlast EXCEPT ![s] = "sleep_raise"]
         ELSE /\ wpc' = [wpc EXCEPT ![s] = "check"]
              /\ wlast' = [wlast EXCEPT ![s] = "none"]
    /\ wfps' = [wfps EXCEPT ![s] = DefaultFps]
    /\ UNCHANGED << mainVars, streaming, nsess, current_image, frame_count,
                    wscale, wimg, wpubs, tickVars >>

\* lines 381-383: the handler prints and clears the flag; the thread ends
WorkerHandler(s) ==
    /\ wpc[s] = "exc"
    /\ streaming' = FALSE
    /\ wpc' = [wpc EXCEPT ![s] = "dead"]
    /\ IF Returned(s)
         THEN /\ current_image' = Freed(current_image, s, NoImage)
              /\ frame_count' = Freed(frame_count, s, 0)
              /\ wlast' = Freed(wlast, s, "none")
         ELSE UNCHANGED << current_image, frame_count, wlast >>
    /\ UNCHANGED << mainVars, nsess, wfps, wscale, wimg, wpubs, tickVars >>

capture_frames(s) ==
    \/ WorkerCheck(s)
    \/ WorkerCapture(s)
    \/ WorkerPublishImage(s)
    \/ WorkerPublishCount(s)
    \/ WorkerSleep(s)
    \/ WorkerHandler(s)

(***************************************************************************)
(* update_display, lines 385-403: the timer callback of the running        *)
(* preview, on the main thread inside root.mainloop().                     *)
(***************************************************************************)
\* a tick that renders whatever the slot and the flag hold
RenderAlways(img, flag) == TRUE

\* line 387: if current_image[0] and self.streaming
ShouldRender(img, flag) == img # NoImage /\ flag

\* a tick that always schedules the next one
RescheduleAlways(flag) == TRUE

\* line 402: if self.streaming
ShouldReschedule(flag) == flag

TickStart ==
    /\ pc = "mainloop"
    /\ tpc = "wait"
    /\ tpc' = IF ShouldRender(current_image[nsess], streaming)
                THEN "render" ELSE "resched"
    /\ UNCHANGED << mainVars, streaming, workerVars, tphoto, status >>

\* lines 390-392, or the handler of lines 399-400
TickRender ==
    /\ pc = "mainloop"
    /\ tpc = "render"
    /\ \/ /\ tphoto' = current_image[nsess]
          /\ tpc' = "status"
          /\ UNCHANGED status
       \/ /\ status' = [kind |-> "Display error", frame |-> 0, photo |-> 0]
          /\ tpc' = "resched"
          /\ UNCHANGED tphoto
    /\ UNCHANGED << mainVars, streaming, workerVars >>

\* lines 395-397: the status line
TickStatus ==
    /\ pc = "mainloop"
    /\ tpc = "status"
    /\ status' = [kind |-> "Frame", frame |-> frame_count[nsess],
                  photo |-> tphoto]
    /\ tphoto' = NoImage
    /\ tpc' = "resched"
    /\ UNCHANGED << mainVars, streaming, workerVars >>

\* lines 402-403
TickReschedule ==
    /\ pc = "mainloop"
    /\ tpc = "resched"
    /\ tpc' = IF ShouldReschedule(streaming) THEN "wait" ELSE "stopped"
    /\ UNCHANGED << mainVars, streaming, workerVars, tphoto, status >>

update_display ==
    \/ TickStart
    \/ TickRender
    \/ TickStatus
    \/ TickReschedule

view_screen_realtime ==
    \/ ViewRefused
    \/ ViewStart
    \/ stop_viewing
    \/ LeaveMainloop
    \/ ViewFinally
    \/ update_display

(***************************************************************************)
(* The specifications.                                                     *)
(*                                                                         *)
(* Spec: the operations that run to completion on the main thread, on a    *)
(* session that never opens the preview window.                            *)
(*                                                                         *)
(* ViewSpec: the preview with its worker threads, together with every      *)
(* other operation that writes self.streaming or self.connected, on a      *)
(* session with a network target (the USB retry loop of connect_device     *)
(* writes nothing the preview reads that the network branch does not).     *)
(* take_screenshot, start_screen_recording and get_device_info are left    *)
(* out of it: they write nothing the preview reads.                        *)
(***************************************************************************)
Next ==
    \/ connect_device
    \/ disconnect
    \/ take_screenshot
    \/ start_screen_recording
    \/ start_live_stream
    \/ get_device_info
    \/ ViewRefused

Spec == Init /\ [][Next]_vars

ViewInit == Init /\ device_ip = "ip"

ViewNext ==
    \/ ConnectNoAdb
    \/ ConnectWifi
    \/ disconnect
    \/ start_live_stream
    \/ view_screen_realtime
    \/ \E s \in Sessions : capture_frames(s)

ViewSpec == ViewInit /\ [][ViewNext]_vars

(***************************************************************************)
(* ResizeSpec: the size of the frame one capture cycle publishes, as the   *)
(* function of the decoded bitmap and of the text of the scale entry that  *)
(* lines 353 and 365-373 compute.                                          *)
(***************************************************************************)
ResizeInit ==
    /\ SessionInit
    /\ decoded \in ResizeSizes
    /\ scale_text \in ResizeTexts
    /\ published = NoSize

\* lines 353 and 365-373.  Nothing is published when float() raises (line
\* 381) or when resize is given a side of zero (line 376).
ResizeFrame ==
    /\ published = NoSize
    /\ ~ParseRaises(scale_text)
    /\ LET new == Resized(decoded, Parsed(scale_text, DefaultScale))
       IN  /\ new.w > 0 /\ new.h > 0
           /\ published' = << new.w, new.h >>
    /\ UNCHANGED << sessionVars, info, connected, streaming, pc, op, ret,
                    cmds, connectVars, remote, pullVars, liveVars,
                    workerVars, tickVars, decoded, scale_text >>

ResizeNext == ResizeFrame

ResizeSpec == ResizeInit /\ [][ResizeNext]_vars

(***************************************************************************)
(* Properties of take_screenshot and start_screen_recording.               *)
(***************************************************************************)
\* C1: once take_screenshot has got past the connection check, it has
\* issued the remote rm by the time it returns, whichever command failed.
C1_CleanupOnEveryExit ==
    (op = "take_screenshot" /\ Issued("screencap")) => Issued("rm")

\* C2: when the capture and the pull succeeded and only the final rm exits
\* non-zero, take_screenshot and start_screen_recording return the local
\* path.
C2_CleanupFailureNonFatal ==
    /\ ( /\ op = "take_screenshot"
         /\ Cmd("screencap", "ok") \in cmds
         /\ Cmd("pull", "ok") \in cmds
         /\ Cmd("rm", "fail") \in cmds ) => ret = "path"
    /\ ( /\ op = "start_screen_recording"
         /\ Cmd("screenrecord", "ok") \in cmds
         /\ Cmd("pull", "ok") \in cmds
         /\ Cmd("rm", "fail") \in cmds ) => ret = "path"

\* C9: take_screenshot returns False when screencap or pull exits non-zero,
\* and after a failed screencap no pull is issued and nothing is copied;
\* start_screen_recording returns False when screenrecord or pull exits
\* non-zero.
C9_FailureReturnsFalse ==
    /\ ( /\ op = "take_screenshot"
         /\ Cmd("screencap", "fail") \in cmds \/ Cmd("pull", "fail") \in cmds )
          => ret = "False"
    /\ (op = "take_screenshot" /\ Cmd("screencap", "fail") \in cmds)
          => (~Issued("pull") /\ pulled = "none")
    /\ ( /\ op = "start_screen_recording"
         /\ \/ Cmd("screenrecord", "fail") \in cmds
            \/ Cmd("pull", "fail") \in cmds )
          => ret = "False"

\* the last four characters are a dot and the letters p, n, g in any case
IsPng(t) ==
    /\ Len(t) >= 4
    /\ t[Len(t) - 3] = "."
    /\ t[Len(t) - 2] \in {"p", "P"}
    /\ t[Len(t) - 1] \in {"n", "N"}
    /\ t[Len(t)] \in {"g", "G"}

\* the last four characters are a dot, m or M, p or P, and 4
IsMp4(t) ==
    /\ Len(t) >= 4
    /\ t[Len(t) - 3] = "."
    /\ t[Len(t) - 2] \in {"m", "M"}
    /\ t[Len(t) - 1] \in {"p", "P"}
    /\ t[Len(t)] = "4"

\* C14: the name a screenshot is saved under ends in .png in some letter
\* case; a name given without that ending has .png appended, a name given
\* with it in any letter case is kept as it is, and normalising the saved
\* name again changes nothing.  The same for recordings and .mp4.
C14_ExtensionExactlyOnce ==
    /\ (op = "take_screenshot" /\ cmds # {}) =>
          /\ IsPng(saved_as)
          /\ (filename # << >> /\ ~IsPng(filename))
                => saved_as = filename \o DotPng
          /\ IsPng(filename) => saved_as = filename
          /\ ShotName(saved_as) = saved_as
    /\ (op = "start_screen_recording" /\ cmds # {}) =>
          /\ IsMp4(saved_as)
          /\ (filename # << >> /\ ~IsMp4(filename))
                => saved_as = filename \o DotMp4
          /\ IsMp4(filename) => saved_as = filename
          /\ RecName(saved_as) = saved_as

\* C14, witness: a screenshot was given a name ending in .PNG and a
\* recording a name without .mp4.
C14_UpperCaseKept ==
    \/ /\ op = "take_screenshot" /\ cmds # {}
       /\ filename = << "A", ".", "P", "N", "G" >>
       /\ saved_as = filename
    \/ /\ op = "start_screen_recording" /\ cmds # {}
       /\ filename = << "A" >> \o DotPng
       /\ saved_as = filename \o DotMp4

\* C13: get_device_info fills each field from its own query: a query that
\* fails leaves its field empty, the two other fields hold the output of
\* their queries, and the call returns the record.
C13_QueriesIndependent ==
    (op = "get_device_info" /\ cmds # {}) =>
        /\ ret = "info"
        /\ \A i \in 1..3 :
              /\ \E rc \in RunOutcomes : Cmd(Fields[i], rc) \in cmds
              /\ info[Fields[i]] =
                    (IF Cmd(Fields[i], "ok") \in cmds THEN "text" ELSE "")

(***************************************************************************)
(* Properties of connect_device.                                           *)
(***************************************************************************)
\* a connect_device call on a USB target that has reached the retry loop
UsbCall ==
    op = "connect_device" /\ device_ip = "None" /\ Cmd("version", "ok") \in cmds

\* C7: a USB connect_device runs 'adb devices' at most 3 times; it returns
\* True, with connected set, at the first run that lists a "device" entry and
\* runs no further one; when 3 runs in a row list none it returns False
\* after exactly 3 runs and exactly 2 waits, and has not set connected.
C7_UsbRetryBudget ==
    UsbCall =>
      /\ enums <= 3
      /\ waits <= 2
      /\ \A i \in 1..Len(polls) : i < Len(polls) => ~polls[i]
      /\ ret = "running" =>
            (enums < 3 /\ waits = enums /\ \A i \in 1..Len(polls) : ~polls[i])
      /\ ret = "True" =>
            ( /\ connected
              /\ Len(polls) = enums
              /\ polls[enums]
              /\ waits = enums - 1 )
      /\ (ret = "False" /\ Len(polls) = enums) =>
            ( /\ enums = 3
              /\ waits = 2
              /\ ~polls[3]
              /\ connected = conn0 )

\* C7, witness: the retry budget is used up on a session that was not
\* connected.
C7_Exhausted ==
    /\ UsbCall /\ ret = "False" /\ pc = "idle"
    /\ Len(polls) = 3 /\ waits = 2 /\ ~connected

\* C11: when disconnect has ended, for a USB or a network target and
\* whether 'adb disconnect' exited with zero, exited non-zero or could not
\* be run, the connected flag is false.
C11_DisconnectClearsFlag ==
    (op = "disconnect" /\ pc = "idle") => ~connected

(***************************************************************************)
(* Properties of start_live_stream.                                        *)
(***************************************************************************)
\* C8: when start_live_stream has stopped, on an interrupt or because a
\* screencap or a pull of some cycle exited non-zero, it has issued the
\* remote rm of the temp frame.
C8_LiveCleanupOnEveryStop ==
    ( /\ op = "start_live_stream" /\ pc = "idle"
      /\ \/ ret = "None"
         \/ Cmd("screencap", "fail") \in cmds
         \/ Cmd("pull", "fail") \in cmds )
        => Issued("rm")

(***************************************************************************)
(* Properties of the preview.                                              *)
(***************************************************************************)
\* C3: the values a capture cycle works with are positive (a text that is
\* not a valid positive number having been replaced by the default), and no
\* cycle ends in the exception handler because of the two texts.
C3_InvalidValuesDefaulted ==
    \A s \in Sessions :
        /\ wlast[s] \notin {"parse_raise", "sleep_raise"}
        /\ wpc[s] = "capture" => (~IsZero(wfps[s]) /\ ~IsZero(wscale[s]))

\* a step that publishes: the slot or the counter of some preview changes
PublishStep ==
    current_image' # current_image \/ frame_count' # frame_count

\* a step that renders: update_display builds the photo of lines 390-392
RenderStep == tpc = "render" /\ tpc' = "status"

\* C4 as stated: while the flag is false no step publishes and none renders.
C4_NothingAfterClear ==
    [][~streaming => (~PublishStep /\ ~RenderStep)]_vars

\* C4, amended: while the flag is false a worker writes the slot at most
\* once (the publish of the cycle that had passed the loop test), a worker
\* at its loop test starts no further cycle, and a tick that begins renders
\* nothing.
C4_AtMostTheCycleInFlight ==
    /\ [](\A s \in Sessions : wpubs[s] <= 1)
    /\ [][\A s \in Sessions :
            (~streaming /\ wpc[s] = "check") => wpc'[s] \in {"check", "done"}]_vars
    /\ [][(~streaming /\ tpc = "wait") => tpc' # "render"]_vars

\* C4, witness: a worker has written the slot after the flag was cleared.
C4_PublishedAfterClear ==
    \E s \in Sessions : ~streaming /\ wpubs[s] = 1 /\ wpc[s] = "pub_cnt"

\* C5: a worker whose preview has been stopped terminates at its next loop
\* test, whatever has been started on the session since.
C5_StoppedWorkerTerminates ==
    [][\A s \in Sessions :
          (Returned(s) /\ wpc[s] = "check" /\ wpc'[s] # "check")
              => wpc'[s] = "done"]_vars

\* C6: the frame number of the status line is that of the publish the
\* rendered image came from.
C6_FrameAndCounterFromSamePublish ==
    status.kind = "Frame" => status.frame = status.photo

\* C10: a cycle whose bytes cannot be decoded publishes nothing and leaves
\* the flag as it is, and when its sleep is over the worker is back at the
\* loop test for the next cycle.
C10_DecodeFailureIsFrameLevel ==
    [][\A s \in Sessions :
          /\ (wpc[s] = "capture" /\ wlast'[s] = "decode_fail")
                => ( /\ current_image'[s] = current_image[s]
                     /\ frame_count'[s] = frame_count[s]
                     /\ streaming' = streaming
                     /\ wpc'[s] = "sleep" )
          /\ (wpc[s] = "sleep" /\ wlast[s] = "decode_fail" /\ wpc'[s] # "sleep")
                => wpc'[s] = "check"]_vars

\* C12: an exception raised by the capture command of a cycle reaches the
\* handler, which sets the flag false and ends the worker for good; a tick
\* that finishes while the flag is false schedules no further tick, and a
\* refresher that has stopped stays stopped; a capture command that exits
\* non-zero leaves the flag as it is and the worker goes on to its sleep,
\* and is never what the handler is entered for.
C12_ExceptionEndsPreview ==
    /\ [][\A s \in Sessions :
            (wpc[s] = "capture" /\ wlast'[s] = "capture_raise")
                => wpc'[s] = "exc"]_vars
    /\ [][\A s \in Sessions :
            (wpc[s] = "exc" /\ wpc'[s] # "exc")
                => (~streaming' /\ wpc'[s] = "dead")]_vars
    /\ [][\A s \in Sessions : wpc[s] = "dead" => wpc'[s] = "dead"]_vars
    /\ [][(~streaming /\ tpc = "resched" /\ tpc' # "resched")
            => tpc' = "stopped"]_vars
    /\ [][tpc = "stopped" => tpc' \in {"stopped", "none"}]_vars
    /\ [][\A s \in Sessions :
            (wpc[s] = "capture" /\ wlast'[s] = "rc_fail")
                => (streaming' = streaming /\ wpc'[s] = "sleep")]_vars
    /\ [](\A s \in Sessions : wpc[s] = "exc" => wlast[s] # "rc_fail")

\* C12, witness: the worker of the running preview has ended in its
\* handler and the refresher has stopped scheduling.
C12_PreviewEndedByException ==
    /\ pc = "mainloop" /\ ~streaming /\ tpc = "stopped"
    /\ wpc[nsess] = "dead" /\ wlast[nsess] = "capture_raise"

\* C16: the frame counter of every preview equals the number of publishes
\* made to its slot so far (the k-th publish stores image k).
C16_CounterCountsPublishes ==
    \A s \in Sessions : frame_count[s] = current_image[s]

\* C17: a tick renders only when it found the flag true and the slot
\* filled; as long as nothing has been published no tick renders and the
\* status line keeps its initial text; a tick that finishes schedules the
\* next one exactly when the flag is true.
C17_RendersOnlyPublished ==
    /\ [][(tpc = "wait" /\ tpc' = "render")
            => (streaming /\ current_image[nsess] # NoImage)]_vars
    /\ []((pc = "mainloop" /\ current_image[nsess] = NoImage)
            => (tpc \notin {"render", "status"} /\ status = InitialStatus))
    /\ [][(tpc = "resched" /\ tpc' # "resched")
            => tpc' = (IF streaming THEN "wait" ELSE "stopped")]_vars

\* C17, witness: a tick has run before the first publish and rendered
\* nothing.
C17_TickBeforeFirstPublish ==
    /\ pc = "mainloop" /\ streaming /\ tpc = "resched"
    /\ current_image[nsess] = NoImage /\ status = InitialStatus

\* C15: for a scale s with 0 < s <= 1 the published frame measures
\* floor(W * s) by floor(H * s), W by H being the decoded bitmap, and for
\* s = 1 it is the decoded bitmap's size.
C15_PublishedSizeIsFloor ==
    published # NoSize =>
        LET s == Parsed(scale_text, DefaultScale)
        IN  (~IsZero(s) /\ s.mant <= Pow10(s.decs)) =>
                /\ published[1] = (decoded[1] * s.mant) \div Pow10(s.decs)
                /\ published[2] = (decoded[2] * s.mant) \div Pow10(s.decs)
                /\ IsOne(s) => published = decoded

\* the operations that begin with the test of self.connected
CaptureOps ==
    { "take_screenshot", "start_screen_recording", "start_live_stream",
      "view_screen_realtime", "get_device_info" }

\* lines 133, 172, 210, 256 and 299: what each returns when not connected
FailureValue(o) == IF o = "get_device_info" THEN "None" ELSE "False"

\* C18: a capture or info operation called while the connected flag is
\* false, or right after a call of disconnect, issues no adb command,
\* returns its failure value and leaves the streaming flag as it is.
C18_NoCommandWhileDisconnected ==
    [][(pc = "idle" /\ op' \in CaptureOps
            /\ (~connected \/ op = "disconnect"))
         => ( /\ cmds' = {}
              /\ ret' = FailureValue(op')
              /\ streaming' = streaming )]_vars

\* C19: a call of take_screenshot or start_screen_recording that returns
\* the local path has pulled a file written by its own capture command.
C19_PulledFileIsFresh ==
    (op \in {"take_screenshot", "start_screen_recording"} /\ ret = "path")
        => pulled = "fresh"

\* C20: when start_live_stream or view_screen_realtime has ended after
\* having set the streaming flag, the flag is false.
C20_FlagFalseAfterEnd ==
    ( /\ op \in {"start_live_stream", "view_screen_realtime"}
      /\ pc = "idle"
      /\ ret \in {"None", "True", "raised"} )
        => ~streaming

====
